---- MODULE Spec2Model ----
(***************************************************************************)
(* CSV analysis agent: main.py (entry point) and csv_analysis_agent.py     *)
(* (analyze_csv, analyze_csv_streaming, run_analysis).                      *)
(*                                                                         *)
(* The program's state is the process environment (API key, working         *)
(* directory, filesystem), the module globals of main.py, the frame of the  *)
(* coroutine that drives the external query, and what the host that called  *)
(* an entry point got back.  The external agent is the environment: while   *)
(* the message stream is open it yields messages, changes the filesystem,   *)
(* raises, or ends the stream.                                              *)
(*                                                                         *)
(* Spec is a host that calls any entry point, one call after the other.     *)
(* SpecTwice is a host that calls analyze_csv (awaited) and run_analysis    *)
(* and keeps each call's result to compare the next call with it.           *)
(***************************************************************************)
EXTENDS Integers, Sequences, FiniteSets, TLC

\* ------------------------------------------------------------------ bounds
\* Longest message stream the external query produces in the model.
MaxMsgs == 2

\* ------------------------------------------------------------- path values
\* A pathlib.Path: absolute or relative, with its components.  pathlib drops
\* "." components when it parses, and keeps ".." ones.
P(abs, parts) == [abs |-> abs, parts |-> parts]

Front(s) == SubSeq(s, 1, Len(s) - 1)

Last(s) == s[Len(s)]

\* Path.parent: the path without its last component; "." and "/" are their
\* own parents.
Parent(p) == IF p.parts = <<>> THEN p ELSE P(p.abs, Front(p.parts))

\* Lexical normalisation of an absolute component list: ".." removes the
\* component before it and stays at the root.
RECURSIVE Norm(_, _)
Norm(acc, rest) ==
    IF rest = <<>> THEN acc
    ELSE IF Head(rest) = ".."
         THEN Norm(IF acc = <<>> THEN acc ELSE Front(acc), Tail(rest))
         ELSE Norm(Append(acc, Head(rest)), Tail(rest))

\* ------------------------------------------------------------- filesystem
DirNode == [kind |-> "dir"]

FileNode(data) == [kind |-> "file", data |-> data]

\* The kernel's walk along components from directory cur: every directory on
\* the way has to exist and be a directory.
RECURSIVE Walk(_, _, _)
Walk(cur, comps, f) ==
    IF comps = <<>> THEN [err |-> "ok", at |-> cur]
    ELSE IF cur \notin DOMAIN f THEN [err |-> "ENOENT", at |-> cur]
    ELSE IF f[cur].kind # "dir" THEN [err |-> "ENOTDIR", at |-> cur]
    ELSE Walk(IF Head(comps) = ".."
              THEN (IF cur = <<>> THEN cur ELSE Front(cur))
              ELSE Append(cur, Head(comps)),
              Tail(comps), f)

\* Text-mode decoding of a file's bytes (Path.read_text): universal newlines
\* turn "\r\n" and "\r" into "\n".
RECURSIVE Translate(_)
Translate(d) ==
    IF d = <<>> THEN <<>>
    ELSE IF Head(d) = "CR"
         THEN <<"LF">> \o Translate(IF Len(d) > 1 /\ d[2] = "LF"
                                    THEN Tail(Tail(d)) ELSE Tail(d))
         ELSE <<Head(d)>> \o Translate(Tail(d))

\* A byte the text codec rejects makes read_text raise UnicodeDecodeError.
Decodable(d) == \A i \in 1..Len(d) : d[i] # "XX"


\* ------------------------------------------------------------------ state
VARIABLES
    apiKey,          \* os.environ's ANTHROPIC_API_KEY entry
    cwd,             \* the process's working directory (absolute components)
    fs,              \* the filesystem: absolute components -> node
    CSV_FILE_PATH,   \* main.py global
    USER_PROMPT,     \* main.py global
    entry,           \* the entry point the host called, or "idle"
    args,            \* the arguments the host passed to it
    pc,              \* where the single task is
    co,              \* the analyze_csv / analyze_csv_streaming coroutine frame
    coRuns,          \* coroutines started for the current call
    prompt,          \* full_prompt's embedded values, once built
    stream,          \* the query generator: "unopened", "open", "ended", "raised"
    msgs,            \* stream items consumed so far
    result_messages, \* analyze_csv's result_messages list
    callbacks,       \* contents handed to analyze_csv_streaming's callback
    printed,         \* "[Agent]" lines printed by the coroutine
    coOutcome,       \* how the coroutine finished
    outcome,         \* what the host's call produced
    queryCalls,      \* calls of query() made for the current call
    fileChecks,      \* output_file.exists() calls made for the current call
    fileReads,       \* output_file.read_text() calls made for the current call
    made,            \* filesystem entries the script itself created, this call
    touched,         \* whether the agent changed the filesystem, this call
    prev             \* the previous call, when the host keeps it to compare

vars == <<apiKey, cwd, fs, CSV_FILE_PATH, USER_PROMPT, entry, args, pc, co,
          coRuns, prompt, stream, msgs, result_messages, callbacks, printed,
          coOutcome, outcome, queryCalls, fileChecks, fileReads, made, touched,
          prev>>

env == <<apiKey, cwd>>

globals == <<CSV_FILE_PATH, USER_PROMPT>>

\* ---------------------------------------------------- program constants
DEFAULT_CSV_FILE_PATH == P(FALSE, <<"data", "sample_sales.csv">>)

DEFAULT_USER_PROMPT == "Analyze this sales data and provide: ..."

OUTPUT_PATH == P(FALSE, <<"output", "analysis_report.txt">>)

DEFAULT_OUTPUT_PATH == P(FALSE, <<"output", "analysis_report.txt">>)

ANALYZE_FALLBACK ==
    <<"Analysis completed but no report file was generated. Check agent output above.">>

STREAMING_FALLBACK == <<"Analysis complete. Check the output file.">>

\* ------------------------------------------------------- values and inputs
Pending == [kind |-> "pending"]

Returned(v) == [kind |-> "return", value |-> v]

Raised(e) == [kind |-> "raise", exc |-> e]

NoFrame == [fn |-> "none"]

NoArgs == [fn |-> "none"]

NoPrompt == [built |-> FALSE]

NoPrev == [built |-> FALSE]

Unset == [set |-> FALSE]

EnvValue(v) == [set |-> TRUE, value |-> v]

ApiKeys == {Unset, EnvValue(""), EnvValue("sk-key")}

WorkDir == <<"w">>

CsvPaths ==
    {DEFAULT_CSV_FILE_PATH, P(FALSE, <<"data", "..", "absent.csv">>)}

OutPaths ==
    {DEFAULT_OUTPUT_PATH,
     P(TRUE, <<"w", "output", "analysis_report.txt">>),
     P(FALSE, <<"output", "tmp", "..", "analysis_report.txt">>)}

Prompts == {"What are the top products?"}

Argvs ==
    {<<>>} \cup {<<c>> : c \in CsvPaths}
           \cup {<<c, q>> : c \in CsvPaths, q \in Prompts}

\* File bytes: a letter, carriage return, line feed, and a byte the codec rejects.
Contents == {<<>>, <<"a", "CR", "LF", "b">>, <<"XX">>}

\* Stream items: a Message with text content, a Message without a content
\* attribute, and an object that is no Message.
MsgKinds == {"text", "result", "foreign"}

IsMessage(m) == m # "foreign"

HasContent(m) == m = "text"

BaseTree ==
    (<<>> :> DirNode) @@ (<<"w">> :> DirNode) @@ (<<"w", "data">> :> DirNode)
    @@ (<<"w", "data", "sample_sales.csv">> :> FileNode(<<"a">>))

InitialTrees ==
    {BaseTree,
     BaseTree @@ (<<"w", "output">> :> DirNode),
     BaseTree @@ (<<"w", "output">> :> FileNode(<<>>)),
     BaseTree @@ (<<"w", "output">> :> DirNode)
              @@ (<<"w", "output", "analysis_report.txt">> :> FileNode(<<"a">>))}

\* ------------------------------------------------- path and file operations
\* Where the kernel starts walking a path: the root, or the working directory.
Start(p) == IF p.abs THEN <<>> ELSE cwd

\* Joins the working directory and leaves ".." components in place.
ResolveJoinOnly(p) == P(TRUE, IF p.abs THEN p.parts ELSE cwd \o p.parts)

\* Path.resolve() of str(): absolute, with ".." collapsed.
Resolve(p) == P(TRUE, Norm(<<>>, IF p.abs THEN p.parts ELSE cwd \o p.parts))

\* The entry a path names in filesystem f, as the kernel finds it.
Locate(p, f) ==
    LET w == Walk(Start(p), p.parts, f)
    IN  IF w.err # "ok" THEN w
        ELSE IF w.at \notin DOMAIN f THEN [err |-> "ENOENT", at |-> w.at]
        ELSE w

\* Path.exists()
Exists(p, f) == Locate(p, f).err = "ok"

\* Path.is_dir()
IsDir(p, f) == LET l == Locate(p, f) IN l.err = "ok" /\ f[l.at].kind = "dir"

\* os.mkdir(p): one directory, whose parent has to exist.
OsMkdir(p, f) ==
    IF p.parts = <<>> THEN [err |-> "EEXIST", fs |-> f, at |-> Start(p)]
    ELSE LET up == Locate(Parent(p), f)
             name == Last(p.parts)
             target == Append(up.at, name)
         IN  IF up.err # "ok" THEN [err |-> up.err, fs |-> f, at |-> up.at]
             ELSE IF f[up.at].kind # "dir"
                  THEN [err |-> "ENOTDIR", fs |-> f, at |-> up.at]
             ELSE IF name = ".." \/ target \in DOMAIN f
                  THEN [err |-> "EEXIST", fs |-> f, at |-> up.at]
             ELSE [err |-> "ok", fs |-> (target :> DirNode) @@ f, at |-> target]

\* Path.mkdir(parents=True, exist_ok=True): what is left of the filesystem and
\* whether the call returned (ok) or raised.
RECURSIVE Mkdir(_, _)
Mkdir(p, f) ==
    LET r == OsMkdir(p, f)
    IN  IF r.err = "ok" THEN [ok |-> TRUE, fs |-> r.fs]
        ELSE IF r.err = "ENOENT"
             THEN IF Parent(p) = p THEN [ok |-> FALSE, fs |-> f]
                  ELSE LET up == Mkdir(Parent(p), f)
                           r2 == OsMkdir(p, up.fs)
                       IN  IF ~up.ok THEN up
                           ELSE IF r2.err = "ok" THEN [ok |-> TRUE, fs |-> r2.fs]
                           ELSE IF r2.err = "ENOENT" THEN [ok |-> FALSE, fs |-> up.fs]
                           ELSE [ok |-> IsDir(p, up.fs), fs |-> up.fs]
        ELSE [ok |-> IsDir(p, f), fs |-> f]

\* Path.read_text() of an existing entry.
ReadText(p, f) ==
    LET node == f[Locate(p, f).at]
    IN  IF node.kind = "dir" THEN Raised("IsADirectoryError")
        ELSE IF ~Decodable(node.data) THEN Raised("UnicodeDecodeError")
        ELSE Returned(Translate(node.data))

\* Treats an empty report like a missing one.
ReportIfNonEmpty(p, f, fallback) ==
    IF Exists(p, f) /\ ReadText(p, f) # Returned(<<>>)
    THEN ReadText(p, f) ELSE Returned(fallback)

\* Reads without asking whether the file exists.
ReportUnguarded(p, f, fallback) ==
    IF Exists(p, f) THEN ReadText(p, f) ELSE Raised("FileNotFoundError")

\* The tail of analyze_csv and analyze_csv_streaming: the report if the output
\* path exists, the function's fallback sentence otherwise.
ReportOrFallback(p, f, fallback) ==
    IF Exists(p, f) THEN ReadText(p, f) ELSE Returned(fallback)

Fallback(fn) == IF fn = "analyze_csv" THEN ANALYZE_FALLBACK ELSE STREAMING_FALLBACK

\* Accepts any value that is set, the empty string included.
validate_environment_is_set == apiKey.set

\* validate_environment()
validate_environment == apiKey.set /\ apiKey.value # ""

\* Looks at the CSV's directory instead of the CSV.
validate_csv_directory(csv_path) == Exists(Parent(csv_path), fs)

\* validate_csv_path(csv_path)
validate_csv_path(csv_path) == Exists(csv_path, fs)

\* ------------------------------------------------------------------ Init
Init ==
    /\ apiKey \in ApiKeys
    /\ cwd = WorkDir
    /\ fs \in InitialTrees
    /\ CSV_FILE_PATH = DEFAULT_CSV_FILE_PATH
    /\ USER_PROMPT = DEFAULT_USER_PROMPT
    /\ entry = "idle"
    /\ args = NoArgs
    /\ pc = "idle"
    /\ co = NoFrame
    /\ coRuns = 0
    /\ prompt = NoPrompt
    /\ stream = "unopened"
    /\ msgs = <<>>
    /\ result_messages = <<>>
    /\ callbacks = 0
    /\ printed = 0
    /\ coOutcome = Pending
    /\ outcome = Pending
    /\ queryCalls = 0
    /\ fileChecks = 0
    /\ fileReads = 0
    /\ made = {}
    /\ touched = FALSE
    /\ prev = NoPrev

\* The frame of a coroutine: analyze_csv(csv_path, user_prompt, output_path,
\* verbose) or analyze_csv_streaming(csv_path, user_prompt, output_path, callback).
Frame(fn, csv_path, user_prompt, output_path, flag) ==
    [fn |-> fn, csv_path |-> csv_path, user_prompt |-> user_prompt,
     output_path |-> output_path, flag |-> flag]

coVars == <<co, coRuns, prompt, stream, msgs, result_messages, callbacks, printed,
            coOutcome, queryCalls, fileChecks, fileReads, made, touched>>

\* ------------------------------------------------------ the host's calls
\* main(): command-line overrides of the globals, then asyncio.run(main_async()).
Main(argv) ==
    /\ pc = "idle"
    /\ entry' = "main"
    /\ args' = [fn |-> "main", argv |-> argv]
    /\ CSV_FILE_PATH' = IF Len(argv) >= 1 THEN argv[1] ELSE CSV_FILE_PATH
    /\ USER_PROMPT' = IF Len(argv) >= 2 THEN argv[2] ELSE USER_PROMPT
    /\ pc' = "validate_env"
    /\ UNCHANGED <<env, fs, coVars, outcome, prev>>

\* The host awaits main_async() itself.
CallMainAsync ==
    /\ pc = "idle"
    /\ entry' = "main_async"
    /\ args' = [fn |-> "main_async"]
    /\ pc' = "validate_env"
    /\ UNCHANGED <<env, fs, globals, coVars, outcome, prev>>

\* The host awaits analyze_csv(csv_path, user_prompt, output_path, verbose).
CallAnalyzeCsv(csv_path, user_prompt, output_path, verbose) ==
    /\ pc = "idle"
    /\ entry' = "analyze_csv"
    /\ args' = Frame("analyze_csv", csv_path, user_prompt, output_path, verbose)
    /\ co' = Frame("analyze_csv", csv_path, user_prompt, output_path, verbose)
    /\ coRuns' = coRuns + 1
    /\ pc' = "analyze"
    /\ UNCHANGED <<env, fs, globals, prompt, stream, msgs, result_messages,
                   callbacks, printed, coOutcome, outcome, queryCalls, fileChecks,
                   fileReads, made, touched, prev>>

\* The host awaits analyze_csv_streaming(csv_path, user_prompt, output_path, callback).
CallAnalyzeCsvStreaming(csv_path, user_prompt, output_path, callback) ==
    /\ pc = "idle"
    /\ entry' = "analyze_csv_streaming"
    /\ args' = Frame("analyze_csv_streaming", csv_path, user_prompt, output_path, callback)
    /\ co' = Frame("analyze_csv_streaming", csv_path, user_prompt, output_path, callback)
    /\ coRuns' = coRuns + 1
    /\ pc' = "analyze"
    /\ UNCHANGED <<env, fs, globals, prompt, stream, msgs, result_messages,
                   callbacks, printed, coOutcome, outcome, queryCalls, fileChecks,
                   fileReads, made, touched, prev>>

\* The host calls run_analysis(csv_path, user_prompt, output_path, verbose).
CallRunAnalysis(csv_path, user_prompt, output_path, verbose) ==
    /\ pc = "idle"
    /\ entry' = "run_analysis"
    /\ args' = Frame("run_analysis", csv_path, user_prompt, output_path, verbose)
    /\ pc' = "run_analysis"
    /\ UNCHANGED <<env, fs, globals, coVars, outcome, prev>>

\* ------------------------------------------------------------- main_async
\* How main_async ends: its return value goes to the host, or to main's sys.exit.
MainAsyncReturns(code) ==
    /\ outcome' = Returned(code)
    /\ pc' = IF entry = "main" THEN "sys_exit" ELSE "returned"

\* main_async, "if not validate_environment(): return 1"
ValidateEnvironment ==
    /\ pc = "validate_env"
    /\ IF validate_environment
       THEN pc' = "validate_csv" /\ UNCHANGED outcome
       ELSE MainAsyncReturns(1)
    /\ UNCHANGED <<env, fs, globals, entry, args, coVars, prev>>

\* The coroutine main_async awaits once both validations pass.
MainAsyncFrame == Frame("analyze_csv", CSV_FILE_PATH, USER_PROMPT, OUTPUT_PATH, TRUE)

\* main_async, "if not validate_csv_path(CSV_FILE_PATH): return 1", then the
\* await of analyze_csv inside the try block.
ValidateCsvPath ==
    /\ pc = "validate_csv"
    /\ IF validate_csv_path(CSV_FILE_PATH)
       THEN /\ co' = MainAsyncFrame
            /\ coRuns' = coRuns + 1
            /\ pc' = "analyze"
            /\ UNCHANGED outcome
       ELSE /\ MainAsyncReturns(1)
            /\ UNCHANGED <<co, coRuns>>
    /\ UNCHANGED <<env, fs, globals, entry, args, prompt, stream, msgs,
                   result_messages, callbacks, printed, coOutcome, queryCalls,
                   fileChecks, fileReads, made, touched, prev>>

\* An except branch that falls through to the success return.
ExitCodeAlwaysZero(o) == 0

\* The exit code main_async's try/except turns the coroutine's end into.
ExitCode(o) == IF o.kind = "return" THEN 0 ELSE 1

\* main_async after the await: return 0, or the except branch's return 1.
MainAsyncFinish ==
    /\ pc = "co_done"
    /\ entry \in {"main", "main_async"}
    /\ MainAsyncReturns(ExitCode(coOutcome))
    /\ UNCHANGED <<env, fs, globals, entry, args, coVars, prev>>

\* main: sys.exit(exit_code) ends the process.
SysExit ==
    /\ pc = "sys_exit"
    /\ outcome' = [kind |-> "exit", value |-> outcome.value]
    /\ pc' = "exited"
    /\ UNCHANGED <<env, fs, globals, entry, args, coVars, prev>>

\* ----------------------------------------------------------- run_analysis
\* The coroutine run_analysis hands to asyncio.run.
RunAnalysisFrame(a) ==
    Frame("analyze_csv", a.csv_path, a.user_prompt, a.output_path, a.flag)

\* run_analysis: asyncio.run starts the coroutine on a fresh event loop.
RunAnalysis ==
    /\ pc = "run_analysis"
    /\ co' = RunAnalysisFrame(args)
    /\ coRuns' = coRuns + 1
    /\ pc' = "analyze"
    /\ UNCHANGED <<env, fs, globals, entry, args, prompt, stream, msgs,
                   result_messages, callbacks, printed, coOutcome, outcome,
                   queryCalls, fileChecks, fileReads, made, touched, prev>>

\* Swallows the coroutine's exception and returns an empty string.
AsyncioRunSwallows(o) == IF o.kind = "raise" THEN Returned(<<>>) ELSE o

\* What asyncio.run hands back: the coroutine's result, or its exception.
AsyncioRun(o) == o

\* run_analysis returns (or raises) once the coroutine is finished.
RunAnalysisReturn ==
    /\ pc = "co_done"
    /\ entry = "run_analysis"
    /\ outcome' = AsyncioRun(coOutcome)
    /\ pc' = "returned"
    /\ UNCHANGED <<env, fs, globals, entry, args, coVars, prev>>

\* A direct await of the coroutine hands its result or exception to the host.
AwaitReturn ==
    /\ pc = "co_done"
    /\ entry \in {"analyze_csv", "analyze_csv_streaming"}
    /\ outcome' = coOutcome
    /\ pc' = "returned"
    /\ UNCHANGED <<env, fs, globals, entry, args, coVars, prev>>

\* ------------------------------------- analyze_csv / analyze_csv_streaming
\* Creates the directory and an empty report file in it.
EnsureOutputDirAndFile(output_path, f) ==
    LET m == Mkdir(Parent(output_path), f)
        at == Walk(Start(output_path), output_path.parts, m.fs).at
    IN  IF m.ok /\ at \notin DOMAIN m.fs
        THEN [ok |-> TRUE, fs |-> (at :> FileNode(<<>>)) @@ m.fs]
        ELSE m

\* "Path(output_path).parent.mkdir(parents=True, exist_ok=True)"
EnsureOutputDir(output_path, f) == Mkdir(Parent(output_path), f)

\* The values the f-string embeds in full_prompt.
FullPrompt(frame) ==
    [built |-> TRUE,
     csv |-> Resolve(frame.csv_path),
     user |-> frame.user_prompt,
     out |-> Resolve(frame.output_path)]

\* From the function's first line to the options object: the output directory
\* is created, the paths are resolved and the prompt is built.  A failing mkdir
\* raises out of the coroutine.
Prepare ==
    /\ pc = "analyze"
    /\ LET m == EnsureOutputDir(co.output_path, fs)
       IN  /\ fs' = m.fs
           /\ made' = made \cup (DOMAIN m.fs \ DOMAIN fs)
           /\ IF m.ok
              THEN /\ prompt' = FullPrompt(co)
                   /\ printed' = IF co.fn = "analyze_csv" /\ co.flag
                                 THEN printed + 2 ELSE printed
                   /\ pc' = "query"
                   /\ UNCHANGED coOutcome
              ELSE /\ coOutcome' = Raised("OSError")
                   /\ pc' = "co_done"
                   /\ UNCHANGED <<prompt, printed>>
    /\ UNCHANGED <<env, globals, entry, args, co, coRuns, stream, msgs,
                   result_messages, callbacks, outcome, queryCalls, fileChecks,
                   fileReads, touched, prev>>

\* "async for message in query(prompt=full_prompt, options=options)": the call.
InvokeQuery ==
    /\ pc = "query"
    /\ queryCalls' = queryCalls + 1
    /\ stream' = "open"
    /\ pc' = "stream"
    /\ UNCHANGED <<env, fs, globals, entry, args, co, coRuns, prompt, msgs,
                   result_messages, callbacks, printed, coOutcome, outcome,
                   fileChecks, fileReads, made, touched, prev>>

\* One item of the stream and the loop body that handles it.
StreamYield(m) ==
    /\ pc = "stream"
    /\ Len(msgs) < MaxMsgs
    /\ msgs' = Append(msgs, m)
    /\ IF co.fn = "analyze_csv"
       THEN /\ result_messages' = IF IsMessage(m) THEN Append(result_messages, m)
                                  ELSE result_messages
            /\ printed' = IF IsMessage(m) /\ co.flag /\ HasContent(m)
                          THEN printed + 1 ELSE printed
            /\ UNCHANGED callbacks
       ELSE /\ callbacks' = IF co.flag /\ IsMessage(m) /\ HasContent(m)
                            THEN callbacks + 1 ELSE callbacks
            /\ UNCHANGED <<result_messages, printed>>
    /\ UNCHANGED <<env, fs, globals, entry, args, pc, co, coRuns, prompt, stream,
                   coOutcome, outcome, queryCalls, fileChecks, fileReads, made,
                   touched, prev>>

\* Calls query() again when the stream raises.
StreamRaiseRetry ==
    /\ pc = "stream"
    /\ stream' = "raised"
    /\ pc' = "query"
    /\ UNCHANGED <<env, fs, globals, entry, args, co, coRuns, prompt, msgs,
                   result_messages, callbacks, printed, coOutcome, outcome,
                   queryCalls, fileChecks, fileReads, made, touched, prev>>

\* The external call raises while the stream is open: nothing in the coroutine
\* catches it.
StreamRaise ==
    /\ pc = "stream"
    /\ stream' = "raised"
    /\ coOutcome' = Raised("QueryError")
    /\ pc' = "co_done"
    /\ UNCHANGED <<env, fs, globals, entry, args, co, coRuns, prompt, msgs,
                   result_messages, callbacks, printed, outcome, queryCalls,
                   fileChecks, fileReads, made, touched, prev>>

\* The stream is exhausted: the loop ends.
StreamEnd ==
    /\ pc = "stream"
    /\ stream' = "ended"
    /\ pc' = "collect"
    /\ UNCHANGED <<env, fs, globals, entry, args, co, coRuns, prompt, msgs,
                   result_messages, callbacks, printed, coOutcome, outcome,
                   queryCalls, fileChecks, fileReads, made, touched, prev>>

\* After the loop: output_file.exists(), then read_text() or the fallback.
CollectAt(positions) ==
    /\ pc \in positions
    /\ LET found == Exists(co.output_path, fs)
           got == ReportOrFallback(co.output_path, fs, Fallback(co.fn))
       IN  /\ fileChecks' = fileChecks + 1
           /\ fileReads' = IF found THEN fileReads + 1 ELSE fileReads
           /\ coOutcome' = got
           /\ printed' = IF co.fn = "analyze_csv" /\ co.flag
                         THEN printed + (IF found /\ got.kind = "return" THEN 2 ELSE 1)
                         ELSE printed
    /\ pc' = "co_done"
    /\ UNCHANGED <<env, fs, globals, entry, args, co, coRuns, prompt, stream, msgs,
                   result_messages, callbacks, outcome, queryCalls, made, touched,
                   prev>>

\* Reads the report as soon as an item has arrived.
CollectWhileStreaming == CollectAt({"stream", "collect"})

Collect == CollectAt({"collect"})

\* --------------------------------------------------- the external agent
\* While the stream is open the agent works on the path the prompt names.
ReportAt == prompt.out.parts

AgentWriteReport(data) ==
    /\ stream = "open"
    /\ Front(ReportAt) \in DOMAIN fs
    /\ fs[Front(ReportAt)].kind = "dir"
    /\ ReportAt \in DOMAIN fs => fs[ReportAt].kind = "file"
    /\ fs' = (ReportAt :> FileNode(data)) @@ fs
    /\ touched' = TRUE
    /\ UNCHANGED <<env, globals, entry, args, pc, co, coRuns, prompt, stream, msgs,
                   result_messages, callbacks, printed, coOutcome, outcome,
                   queryCalls, fileChecks, fileReads, made, prev>>

AgentRemoveReport ==
    /\ stream = "open"
    /\ ReportAt \in DOMAIN fs
    /\ fs[ReportAt].kind = "file"
    /\ fs' = [q \in DOMAIN fs \ {ReportAt} |-> fs[q]]
    /\ touched' = TRUE
    /\ UNCHANGED <<env, globals, entry, args, pc, co, coRuns, prompt, stream, msgs,
                   result_messages, callbacks, printed, coOutcome, outcome,
                   queryCalls, fileChecks, fileReads, made, prev>>

AgentMakesDirectory ==
    /\ stream = "open"
    /\ ReportAt \notin DOMAIN fs
    /\ Front(ReportAt) \in DOMAIN fs
    /\ fs[Front(ReportAt)].kind = "dir"
    /\ fs' = (ReportAt :> DirNode) @@ fs
    /\ touched' = TRUE
    /\ UNCHANGED <<env, globals, entry, args, pc, co, coRuns, prompt, stream, msgs,
                   result_messages, callbacks, printed, coOutcome, outcome,
                   queryCalls, fileChecks, fileReads, made, prev>>

\* ------------------------------------------------------------ the host
\* The host takes the result; every per-call variable goes back to its
\* initial value before the next call.
CallOver ==
    /\ pc = "returned"
    /\ entry' = "idle"
    /\ args' = NoArgs
    /\ pc' = "idle"
    /\ co' = NoFrame
    /\ coRuns' = 0
    /\ prompt' = NoPrompt
    /\ stream' = "unopened"
    /\ msgs' = <<>>
    /\ result_messages' = <<>>
    /\ callbacks' = 0
    /\ printed' = 0
    /\ coOutcome' = Pending
    /\ outcome' = Pending
    /\ queryCalls' = 0
    /\ fileChecks' = 0
    /\ fileReads' = 0
    /\ made' = {}
    /\ touched' = FALSE
    /\ UNCHANGED <<env, fs, globals>>

\* The host goes on to its next call.
HostContinue == CallOver /\ UNCHANGED prev

\* The host keeps what the call was given, what it saw and what it produced,
\* to compare the next call with it.
HostKeepsResult ==
    /\ CallOver
    /\ prev' = [built |-> TRUE, entry |-> entry, co |-> co, cwd |-> cwd,
                prompt |-> prompt, stream |-> stream, fs |-> fs,
                outcome |-> outcome]

Next ==
    \/ \E argv \in Argvs : Main(argv)
    \/ CallMainAsync
    \/ \E c \in CsvPaths, q \in Prompts, o \in OutPaths, v \in BOOLEAN :
          CallAnalyzeCsv(c, q, o, v)
    \/ \E c \in CsvPaths, q \in Prompts, o \in OutPaths, cb \in BOOLEAN :
          CallAnalyzeCsvStreaming(c, q, o, cb)
    \/ \E c \in CsvPaths, q \in Prompts, o \in OutPaths, v \in BOOLEAN :
          CallRunAnalysis(c, q, o, v)
    \/ ValidateEnvironment
    \/ ValidateCsvPath
    \/ MainAsyncFinish
    \/ SysExit
    \/ RunAnalysis
    \/ RunAnalysisReturn
    \/ AwaitReturn
    \/ Prepare
    \/ InvokeQuery
    \/ \E m \in MsgKinds : StreamYield(m)
    \/ StreamRaise
    \/ StreamEnd
    \/ Collect
    \/ \E data \in Contents : AgentWriteReport(data)
    \/ AgentRemoveReport
    \/ AgentMakesDirectory
    \/ HostContinue

Spec == Init /\ [][Next]_vars

\* A host that calls analyze_csv (awaited) and run_analysis one after the
\* other and compares each call with the one before it.
InitTwice == Init /\ apiKey = EnvValue("sk-key")

NextTwice ==
    \/ \E c \in {DEFAULT_CSV_FILE_PATH}, q \in Prompts, o \in OutPaths, v \in BOOLEAN :
          CallAnalyzeCsv(c, q, o, v)
    \/ \E c \in {DEFAULT_CSV_FILE_PATH}, q \in Prompts, o \in OutPaths, v \in BOOLEAN :
          CallRunAnalysis(c, q, o, v)
    \/ RunAnalysis
    \/ RunAnalysisReturn
    \/ AwaitReturn
    \/ Prepare
    \/ InvokeQuery
    \/ \E m \in MsgKinds : StreamYield(m)
    \/ StreamRaise
    \/ StreamEnd
    \/ Collect
    \/ \E data \in Contents : AgentWriteReport(data)
    \/ AgentRemoveReport
    \/ AgentMakesDirectory
    \/ HostKeepsResult

SpecTwice == InitTwice /\ [][NextTwice]_vars


\* ================================================================ claims
KeyMissing == ~apiKey.set \/ apiKey.value = ""

InMain == entry \in {"main", "main_async"}

\* main_async has returned code to asyncio.run / the host, or main has exited with it.
ExitedWith(code) ==
    \/ pc \in {"returned", "sys_exit"} /\ outcome = Returned(code)
    \/ pc = "exited" /\ outcome = [kind |-> "exit", value |-> code]

MainAsyncOver == pc \in {"returned", "sys_exit", "exited"}

\* C1: with ANTHROPIC_API_KEY unset or empty, main_async returns 1 and query()
\* is never called, nor a coroutine started, whatever CSV path and prompt the
\* globals hold.
C1_MissingKeyReturnsOne ==
    (InMain /\ KeyMissing) =>
        /\ queryCalls = 0
        /\ coRuns = 0
        /\ stream = "unopened"
        /\ pc \in {"validate_env", "returned", "sys_exit", "exited"}
        /\ MainAsyncOver => ExitedWith(1)

C1_Witness ==
    /\ entry = "main"
    /\ apiKey = EnvValue("")
    /\ Len(args.argv) = 2
    /\ pc = "exited"
    /\ outcome = [kind |-> "exit", value |-> 1]

\* C2: with the API key present and CSV_FILE_PATH naming nothing on the
\* filesystem, main_async returns 1 and query() is never called.
C2_MissingCsvReturnsOne ==
    (InMain /\ ~KeyMissing /\ ~Exists(CSV_FILE_PATH, fs)) =>
        /\ queryCalls = 0
        /\ coRuns = 0
        /\ stream = "unopened"
        /\ pc \in {"validate_env", "validate_csv", "returned", "sys_exit", "exited"}
        /\ MainAsyncOver => ExitedWith(1)

C2_Witness ==
    /\ entry = "main"
    /\ apiKey = EnvValue("sk-key")
    /\ CSV_FILE_PATH # DEFAULT_CSV_FILE_PATH
    /\ pc = "sys_exit"
    /\ outcome = Returned(1)

\* The node at the configured output path, as the kernel finds it now.
OutputNode == fs[Locate(co.output_path, fs).at]

CoroutineOver == coOutcome # Pending

\* C3: when the stream ended without an exception and a text file is at the
\* output path, analyze_csv returns that file's text (its bytes as text mode
\* decodes them), whatever messages came and whether or not the agent wrote
\* the file during this call; a direct await hands the host the same value.
C3_ReturnsReportText ==
    (/\ co.fn = "analyze_csv"
     /\ stream = "ended"
     /\ CoroutineOver
     /\ Exists(co.output_path, fs)
     /\ OutputNode.kind = "file"
     /\ Decodable(OutputNode.data)) =>
        /\ coOutcome = Returned(Translate(OutputNode.data))
        /\ (entry = "analyze_csv" /\ pc = "returned") => outcome = coOutcome

C3_Witness ==
    /\ entry = "analyze_csv"
    /\ pc = "returned"
    /\ stream = "ended"
    /\ touched
    /\ Len(msgs) >= 2
    /\ OutputNode = FileNode(<<"a", "CR", "LF", "b">>)
    /\ outcome = Returned(<<"a", "LF", "b">>)

C5_FileReadAfterStream ==
    /\ (fileChecks > 0 \/ fileReads > 0) => stream = "ended"
    /\ stream = "open" => coOutcome = Pending
    /\ fileReads <= fileChecks
    /\ fileChecks <= 1

C5_Witness ==
    /\ co.fn = "analyze_csv_streaming"
    /\ fileReads = 1
    /\ touched
    /\ Len(msgs) >= 2
    /\ coOutcome.kind = "return"

\* C6: main_async returns 0 exactly when the key is present, the CSV path
\* exists and analyze_csv returned (its fallback included); it returns 1 in
\* every other case, and main exits with that code.
C6_ExitCode ==
    (InMain /\ MainAsyncOver) =>
        /\ ExitedWith(0) \/ ExitedWith(1)
        /\ ExitedWith(0) <=> (/\ ~KeyMissing
                              /\ Exists(CSV_FILE_PATH, fs)
                              /\ coRuns = 1
                              /\ coOutcome.kind = "return")

C6_Witness ==
    /\ entry = "main_async"
    /\ pc = "returned"
    /\ outcome = Returned(0)
    /\ coOutcome = Returned(ANALYZE_FALLBACK)

\* C7: an exception the query raises ends the coroutine with that exception:
\* query() was called once and is not called again, the output file is neither
\* checked nor read, run_analysis and a direct await raise it, and main_async
\* returns 1.
C7_QueryFailureIsTerminal ==
    /\ queryCalls <= 1
    /\ stream # "unopened" => queryCalls = 1
    /\ stream = "raised" =>
          /\ coOutcome = Raised("QueryError")
          /\ fileChecks = 0
          /\ fileReads = 0
          /\ pc \in {"co_done", "returned", "sys_exit", "exited"}
          /\ (pc = "returned" /\ ~InMain) => outcome = Raised("QueryError")
          /\ (InMain /\ MainAsyncOver) => ExitedWith(1)

C7_Witness ==
    /\ entry = "main_async"
    /\ pc = "returned"
    /\ stream = "raised"
    /\ Len(msgs) >= 1
    /\ touched
    /\ outcome = Returned(1)

\* C8 as stated: the script itself creates or changes nothing on the filesystem.
C8_ScriptWritesNothing == made = {}

\* A directory that one of the prefixes of the output path's parent names.
OnParentChain(q, f) ==
    LET parent == Parent(co.output_path)
    IN  \E k \in 0..Len(parent.parts) :
            Walk(Start(parent), SubSeq(parent.parts, 1, k), f) = [err |-> "ok", at |-> q]

\* C8 amended: the only filesystem change the script makes is creating, before
\* it calls query(), missing directories along the parent of the output path;
\* every other change is a step of the agent while the stream is open.
C8_ScriptOnlyMakesDirectories ==
    [][fs' # fs =>
          \/ /\ stream = "open"
             /\ stream' = "open"
             /\ pc' = pc
             /\ touched'
             /\ made' = made
          \/ /\ pc = "analyze"
             /\ queryCalls = 0
             /\ \A q \in DOMAIN fs : q \in DOMAIN fs' /\ fs'[q] = fs[q]
             /\ made' = made \cup (DOMAIN fs' \ DOMAIN fs)
             /\ \A q \in DOMAIN fs' \ DOMAIN fs :
                   fs'[q] = DirNode /\ OnParentChain(q, fs')]_vars

C8_Witness ==
    /\ pc = "returned"
    /\ Cardinality(made) = 2
    /\ touched
    /\ coOutcome.kind = "return"

\* An awaited analyze_csv call and a run_analysis call, in either order.
WrapperAndAwait(e1, e2) == {e1, e2} = {"analyze_csv", "run_analysis"}

\* C9: run_analysis runs one analyze_csv coroutine built from exactly its own
\* arguments, returns only when that coroutine is over, and hands back its
\* value or exception unchanged; and of two consecutive calls, one awaiting
\* analyze_csv and one through run_analysis, with the same arguments, the same
\* end of the stream and the same filesystem at the end, both return the same
\* value or raise the same exception.
C9_WrapperMatchesAwait ==
    /\ (entry \in {"run_analysis", "analyze_csv"}) =>
          /\ coRuns <= 1
          /\ co # NoFrame =>
                co = Frame("analyze_csv", args.csv_path, args.user_prompt,
                           args.output_path, args.flag)
          /\ outcome # Pending => pc = "returned"
          /\ pc = "returned" => coRuns = 1 /\ CoroutineOver
    /\ (/\ prev.built
        /\ pc = "returned"
        /\ WrapperAndAwait(prev.entry, entry)
        /\ prev.co = co
        /\ prev.stream = stream
        /\ prev.fs = fs) => outcome = prev.outcome

C9_Witness ==
    /\ prev.built
    /\ prev.entry = "analyze_csv"
    /\ entry = "run_analysis"
    /\ pc = "returned"
    /\ prev.co = co
    /\ prev.stream = stream
    /\ prev.fs = fs
    /\ args.output_path # DEFAULT_OUTPUT_PATH
    /\ touched
    /\ outcome = Returned(<<"a", "LF", "b">>)

\* C10: a second call with the same csv_path and output_path in the same
\* working directory embeds the same absolute paths; the embedded paths are
\* fixed points of resolution; and the embedded output path is the place the
\* script's existence check and read look at.
C10_ResolutionIdempotent ==
    /\ (/\ prev.built
        /\ prev.prompt.built
        /\ prompt.built
        /\ prev.cwd = cwd
        /\ prev.co.csv_path = co.csv_path
        /\ prev.co.output_path = co.output_path) =>
           prompt.csv = prev.prompt.csv /\ prompt.out = prev.prompt.out
    /\ prompt.built =>
          /\ prompt.out.abs /\ prompt.csv.abs
          /\ Resolve(prompt.out) = prompt.out
          /\ Resolve(prompt.csv) = prompt.csv
          /\ Walk(Start(co.output_path), co.output_path.parts, fs)
                = [err |-> "ok", at |-> prompt.out.parts]

C10_Witness ==
    /\ prev.built
    /\ prev.prompt.built
    /\ prompt.built
    /\ prev.co.output_path = co.output_path
    /\ prev.co.csv_path = co.csv_path
    /\ prev.co.user_prompt = co.user_prompt
    /\ ~co.output_path.abs
    /\ Len(co.output_path.parts) = 4
    /\ fileReads = 1

====
